---- MODULE Spec2Model ----
(***************************************************************************)
(* wadl-dumper (main.go): extraction of resource paths from a WADL         *)
(* document, base-URL prefixing, placeholder substitution and the          *)
(* second-occurrence "//" collapse.                                        *)
(*                                                                         *)
(* Strings are modelled as sequences of one-character strings, so that     *)
(* slicing, searching and concatenation are computed, not assumed.  Go     *)
(* offsets are 0-based and are kept 0-based in the helpers below.          *)
(***************************************************************************)
EXTENDS Integers, Sequences, FiniteSets, TLC

VARIABLES
    pc,               \* position of main (or of the function under test)
    input,            \* opt.input
    showBase,         \* opt.showBase
    replace,          \* opt.replace
    placeholderArgs,  \* opt.placeholderArgs, the -p values in order
    placeholders,     \* opt.placeholders, map name -> value
    baseURL,          \* opt.baseURL
    openErr,          \* whether os.Open returned an error
    wadl,             \* the loaded document: <<>> (nil) or <<doc>>
    k,                \* number of resource/@path nodes already processed
    path,             \* main's local variable path / a function's argument
    ret,              \* a function's return value (function specifications)
    out,              \* lines written to standard output
    stderr,           \* lines written to standard error
    exitCode          \* process exit status, -1 while running

vars == <<pc, input, showBase, replace, placeholderArgs, placeholders, baseURL,
          openErr, wadl, k, path, ret, out, stderr, exitCode>>

----------------------------------------------------------------------------
(* Bounds of the model *)

MaxPaths == 2
MaxLen == 5
MaxNthLen == 8
MaxArgs == 2
MaxArgLen == 3

----------------------------------------------------------------------------
(* Go string primitives *)

Min(S) == CHOOSE x \in S : \A y \in S : x <= y

\* s[i:]
From(s, i) == SubSeq(s, i + 1, Len(s))

\* s[:i]
Upto(s, i) == SubSeq(s, 1, i)

\* strings.Index(s, sub): 0-based offset of the first occurrence, or -1
Index(s, sub) ==
    LET hits == {x \in 0..(Len(s) - Len(sub)) : SubSeq(s, x + 1, x + Len(sub)) = sub}
    IN  IF hits = {} THEN -1 ELSE Min(hits)

\* strings.Contains(s, sub)
Contains(s, sub) == Index(s, sub) >= 0

\* strings.HasPrefix(s, prefix)
HasPrefix(s, prefix) == Len(s) >= Len(prefix) /\ SubSeq(s, 1, Len(prefix)) = prefix

\* strings.SplitN(p, sep, 2) with a one-character separator
SplitN2(p, sep) ==
    LET x == Index(p, sep)
    IN  IF x < 0 THEN <<p>> ELSE <<Upto(p, x), From(p, x + Len(sep))>>

\* All strings over alphabet A of length at most n
StrUpTo(A, n) == UNION {[1..m -> A] : m \in 0..n}

\* All sequences over S of length at most n
SeqUpTo(S, n) == UNION {[1..m -> S] : m \in 0..n}

----------------------------------------------------------------------------
(* replaceNth, main.go:88-104 *)

\* A buggy advance that lets occurrences overlap
AdvanceOverlapping(i, old) == i + 1

\* i += len(old)
Advance(i, old) == i + Len(old)

RECURSIVE replaceNthLoop(_, _, _, _, _, _)
replaceNthLoop(s, old, new, n, m, i) ==
    IF m > n THEN s
    ELSE LET x == Index(From(s, i), old)
         IN  IF x < 0 THEN s
             ELSE LET j == i + x
                  IN  IF m = n
                      THEN Upto(s, j) \o new \o From(s, j + Len(old))
                      ELSE replaceNthLoop(s, old, new, n, m + 1, Advance(j, old))

replaceNth(s, old, new, n) == replaceNthLoop(s, old, new, n, 1, 0)

----------------------------------------------------------------------------
(* parsePlaceholders, main.go:72-80 *)

\* opt.placeholders[name] = value
Store(m, name, value) ==
    [n \in DOMAIN m \cup {name} |-> IF n = name THEN value ELSE m[n]]

\* A buggy split at the last "=" instead of the first
SplitAtLast(p) ==
    LET eqs == {x \in 1..Len(p) : p[x] = "="}
    IN  IF eqs = {} THEN <<p>>
        ELSE LET x == CHOOSE y \in eqs : \A z \in eqs : z <= y
             IN  <<SubSeq(p, 1, x - 1), SubSeq(p, x + 1, Len(p))>>

\* parts := strings.SplitN(p, "=", 2)
SplitArg(p) == SplitN2(p, <<"=">>)

\* The loop over opt.placeholderArgs, from argument i on, m the map so far
RECURSIVE parsePlaceholdersFrom(_, _, _)
parsePlaceholdersFrom(args, i, m) ==
    IF i > Len(args) THEN m
    ELSE LET parts == SplitArg(args[i])
         IN  IF Len(parts) = 2
             THEN parsePlaceholdersFrom(args, i + 1, Store(m, parts[1], parts[2]))
             ELSE parsePlaceholdersFrom(args, i + 1, m)

\* make(map[string]string)
EmptyMap == <<>>

----------------------------------------------------------------------------
(* replacePlaceholders, main.go:108-132 *)

\* A buggy quantifier: `*` instead of `+` in the regular expression
NameLenOkStar(n) == n >= 0

\* [^{}]+ : the name has at least one character
NameLenOk(n) == n >= 1

\* The regular expression \{([^{}]+)\} anchored at 1-based position p of s:
\* the position of the closing brace when it matches there, 0 when it does not.
MatchEnd(s, p) ==
    IF s[p] # "{" THEN 0
    ELSE LET braces == {q \in (p + 1)..Len(s) : s[q] \in {"{", "}"}}
         IN  IF braces = {} THEN 0
             ELSE LET q == Min(braces)
                  IN  IF s[q] = "}" /\ NameLenOk(q - p - 1) THEN q ELSE 0

\* A buggy precedence: the default replacement before the explicit mapping
ResolveDefaultFirst(name, match) ==
    IF replace # <<>> THEN replace
    ELSE IF name \in DOMAIN placeholders THEN placeholders[name]
    ELSE match

\* The replacement function passed to ReplaceAllStringFunc
Resolve(name, match) ==
    IF name \in DOMAIN placeholders THEN placeholders[name]
    ELSE IF replace # <<>> THEN replace
    ELSE match

\* re.ReplaceAllStringFunc(s, repl) from 1-based position p on: leftmost
\* non-overlapping matches, the text between them copied
RECURSIVE ReplaceAllStringFunc(_, _)
ReplaceAllStringFunc(s, p) ==
    IF p > Len(s) THEN <<>>
    ELSE LET q == MatchEnd(s, p)
         IN  IF q > 0
             THEN LET match == SubSeq(s, p, q)
                      name  == SubSeq(match, 2, Len(match) - 1)
                  IN  Resolve(name, match) \o ReplaceAllStringFunc(s, q + 1)
             ELSE <<s[p]>> \o ReplaceAllStringFunc(s, p + 1)

\* A buggy renderer that scans its own output again
replacePlaceholdersRescan(p) ==
    ReplaceAllStringFunc(ReplaceAllStringFunc(p, 1), 1)

replacePlaceholders(p) == ReplaceAllStringFunc(p, 1)

----------------------------------------------------------------------------
(* The inputs of a run: command line and document *)

Http == <<"h", "t", "t", "p">>

\* "wadl.dev.java.net"
WadlNs == <<"w", "a", "d", "l", ".", "d", "e", "v", ".", "j", "a", "v", "a", ".", "n", "e", "t">>

\* "http://h.tld" and "http://h.tld/"
BaseHost == Http \o <<":", "/", "/", "h", ".", "t", "l", "d">>
BaseHostSlash == BaseHost \o <<"/">>

\* "http://{v}/", a declared base that itself holds a placeholder
BaseToken == Http \o <<":", "/", "/", "{", "v", "}", "/">>

\* "/a", "/res/{id}", "/a//b//c", "/a{}"
PathA == <<"/", "a">>
PathResId == <<"/", "r", "e", "s", "/", "{", "i", "d", "}">>
PathSlashes == <<"/", "a", "/", "/", "b", "/", "/", "c">>
PathEmptyBraces == <<"/", "a", "{", "}">>

\* opt.input: not given, a URL, a local file name
Inputs == {<<>>, Http \o <<":", "/", "/", "u">>, <<"w", ".", "x", "m", "l">>}

\* (opt.replace, opt.placeholderArgs) as flag.Parse leaves them
Configs ==
    { [replace |-> <<>>, args |-> <<>>],
      [replace |-> <<"R">>,
       args |-> << <<"i", "d", "=", "4", "2">>, <<"i", "d", "=", "4", "3">>,
                   <<"n", "o", "v", "a", "l", "u", "e">> >>],
      [replace |-> <<"/", "/", "x">>, args |-> <<>>],
      [replace |-> <<"R">>,
       args |-> << <<"i", "d", "=">>, <<"v", "=", "{", "i", "d", "}">> >>] }

\* The text of every //application/@xmlns node of a document
XmlnsLists ==
    { <<>>,
      << Http \o <<":", "/", "/">> \o WadlNs \o <<"/", "2", "0", "0", "9", "/", "0", "2">> >>,
      << WadlNs >>,
      << SubSeq(WadlNs, 1, Len(WadlNs) - 1) >>,
      << <<>> >> }

\* The text of every //resources/@base node of a document
BaseLists ==
    { <<>>, << <<>> >>, <<BaseHost>>, <<BaseHostSlash>>, <<BaseToken>>,
      <<BaseHostSlash, BaseHost>> }

PathSet == {PathA, PathResId, PathSlashes, PathEmptyBraces}

\* The text of every //resource/@path node of a document, in document order
PathLists == SeqUpTo(PathSet, MaxPaths)

Docs == [xmlns : XmlnsLists, bases : BaseLists, paths : PathLists]

\* What xmlquery.LoadURL / xmlquery.Parse return: no node, or a document
LoadResults == {<<>>} \cup {<<d>> : d \in Docs}

\* xmlquery.FindOne over the matching nodes: the first one, or none
FindOne(nodes) == IF nodes = <<>> THEN <<>> ELSE <<nodes[1]>>

----------------------------------------------------------------------------
(* main, main.go:134-184 *)

\* A buggy namespace test that only looks for the attribute
IsWadlAnyXmlns(xmlns) == xmlns # <<>>

\* !(xmlns == nil || !strings.Contains(xmlns.InnerText(), "wadl.dev.java.net"))
IsWadl(xmlns) == xmlns # <<>> /\ Contains(xmlns[1], WadlNs)

\* A buggy base that ignores -b
EffectiveBaseAlways(base, sb) == IF base # <<>> THEN base[1] ELSE <<>>

\* if base != nil && opt.showBase { base.InnerText() } else { "" }
EffectiveBase(base, sb) == IF base # <<>> /\ sb THEN base[1] ELSE <<>>

\* A buggy guard that collapses every path
NeedsCollapseAlways(b) == TRUE

\* if opt.baseURL != ""
NeedsCollapse(b) == b # <<>>

\* The body of the loop over the path nodes, up to the line it prints
RenderLine(b, raw) ==
    LET composed == b \o raw
        rendered == replacePlaceholders(composed)
    IN  IF NeedsCollapse(b)
        THEN replaceNth(rendered, <<"/", "/">>, <<"/">>, 2)
        ELSE rendered

\* A buggy print that drops a line already printed
EmitOnce(o, line) ==
    IF \E j \in 1..Len(o) : o[j] = line THEN o ELSE Append(o, line)

\* fmt.Printf("%s\n", path)
Emit(o, line) == Append(o, line)

\* errorExit, main.go:82-86
errorExit(message) ==
    /\ stderr' = Append(stderr, <<"Error! ", message>>)
    /\ exitCode' = 1
    /\ pc' = "exit"

Init ==
    /\ pc = "start"
    /\ input \in Inputs
    /\ showBase \in BOOLEAN
    /\ \E c \in Configs : replace = c.replace /\ placeholderArgs = c.args
    /\ placeholders = EmptyMap
    /\ baseURL = <<>>
    /\ openErr = FALSE
    /\ wadl = <<>>
    /\ k = 0
    /\ path = <<>>
    /\ ret = <<>>
    /\ out = <<>>
    /\ stderr = <<>>
    /\ exitCode = -1

ParsePlaceholders ==
    /\ pc = "start"
    /\ placeholders' = parsePlaceholdersFrom(placeholderArgs, 1, placeholders)
    /\ pc' = "checkInput"
    /\ UNCHANGED <<openErr, input, showBase, replace, placeholderArgs, baseURL, wadl, k,
                   path, ret, out, stderr, exitCode>>

CheckInput ==
    /\ pc = "checkInput"
    /\ IF input = <<>>
       THEN errorExit("Flag -i is required, use -h flag for help.")
       ELSE pc' = "load" /\ UNCHANGED <<stderr, exitCode>>
    /\ UNCHANGED <<openErr, input, showBase, replace, placeholderArgs, placeholders,
                   baseURL, wadl, k, path, ret, out>>

Load ==
    /\ pc = "load"
    /\ IF HasPrefix(input, Http)
       THEN /\ \E w \in LoadResults : wadl' = w
            /\ pc' = "checkDoc"
            /\ UNCHANGED <<openErr, stderr, exitCode>>
       ELSE \/ /\ openErr' = TRUE
               /\ errorExit("Can't open file.")
               /\ UNCHANGED wadl
            \/ /\ \E w \in LoadResults : wadl' = w
               /\ pc' = "checkDoc"
               /\ UNCHANGED <<openErr, stderr, exitCode>>
    /\ UNCHANGED <<input, showBase, replace, placeholderArgs, placeholders,
                   baseURL, k, path, ret, out>>

CheckDoc ==
    /\ pc = "checkDoc"
    /\ IF wadl = <<>>
       THEN errorExit("Can't parse WADL file.")
       ELSE pc' = "checkNs" /\ UNCHANGED <<stderr, exitCode>>
    /\ UNCHANGED <<openErr, input, showBase, replace, placeholderArgs, placeholders,
                   baseURL, wadl, k, path, ret, out>>

CheckNs ==
    /\ pc = "checkNs"
    /\ IF ~IsWadl(FindOne(wadl[1].xmlns))
       THEN errorExit("Not a WADL file.")
       ELSE pc' = "base" /\ UNCHANGED <<stderr, exitCode>>
    /\ UNCHANGED <<openErr, input, showBase, replace, placeholderArgs, placeholders,
                   baseURL, wadl, k, path, ret, out>>

ComputeBase ==
    /\ pc = "base"
    /\ baseURL' = EffectiveBase(FindOne(wadl[1].bases), showBase)
    /\ pc' = "loop"
    /\ UNCHANGED <<openErr, input, showBase, replace, placeholderArgs, placeholders,
                   wadl, k, path, ret, out, stderr, exitCode>>

LoopBody ==
    /\ pc = "loop"
    /\ k < Len(wadl[1].paths)
    /\ path' = RenderLine(baseURL, wadl[1].paths[k + 1])
    /\ out' = Emit(out, path')
    /\ k' = k + 1
    /\ UNCHANGED <<openErr, pc, input, showBase, replace, placeholderArgs, placeholders,
                   baseURL, wadl, ret, stderr, exitCode>>

LoopEnd ==
    /\ pc = "loop"
    /\ k = Len(wadl[1].paths)
    /\ pc' = "done"
    /\ exitCode' = 0
    /\ UNCHANGED <<openErr, input, showBase, replace, placeholderArgs, placeholders,
                   baseURL, wadl, k, path, ret, out, stderr>>

Next ==
    \/ ParsePlaceholders
    \/ CheckInput
    \/ Load
    \/ CheckDoc
    \/ CheckNs
    \/ ComputeBase
    \/ LoopBody
    \/ LoopEnd

Spec == Init /\ [][Next]_vars

----------------------------------------------------------------------------
(* Specifications of the single functions, over bounded sets of arguments *)

Idle ==
    /\ input = <<>>
    /\ showBase = FALSE
    /\ baseURL = <<>>
    /\ openErr = FALSE
    /\ wadl = <<>>
    /\ k = 0
    /\ ret = <<>>
    /\ out = <<>>
    /\ stderr = <<>>
    /\ exitCode = -1

\* "http://h.tld//res/{id}", the raw join of "http://h.tld/" and "/res/{id}"
JoinedExample == BaseHostSlash \o PathResId

NthInputs == StrUpTo({"/", "a"}, MaxNthLen) \cup {JoinedExample}

InitNth ==
    /\ Idle
    /\ pc = "replaceNth"
    /\ path \in NthInputs
    /\ replace = <<>>
    /\ placeholderArgs = <<>>
    /\ placeholders = EmptyMap

\* The call of main.go:179
CallReplaceNth ==
    /\ pc = "replaceNth"
    /\ ret' = replaceNth(path, <<"/", "/">>, <<"/">>, 2)
    /\ pc' = "replaceNth.return"
    /\ UNCHANGED <<input, showBase, replace, placeholderArgs, placeholders,
                   baseURL, openErr, wadl, k, path, out, stderr, exitCode>>

NextNth == CallReplaceNth

SpecNth == InitNth /\ [][NextNth]_vars

\* "/users/{id}/orders/{oid}"
PathUsersOrders ==
    <<"/", "u", "s", "e", "r", "s", "/", "{", "i", "d", "}", "/",
      "o", "r", "d", "e", "r", "s", "/", "{", "o", "i", "d", "}">>

TmplInputs == StrUpTo({"{", "}", "a", "b"}, MaxLen) \cup {PathUsersOrders}

\* (opt.replace, opt.placeholders) as parsePlaceholders leaves them
TmplConfigs ==
    { [replace |-> <<>>, map |-> EmptyMap],
      [replace |-> <<"X", "X", "X">>, map |-> EmptyMap],
      [replace |-> <<"R">>, map |-> (<<"a">> :> <<"1">>)],
      [replace |-> <<>>, map |-> (<<"a">> :> <<>>)],
      [replace |-> <<"R">>, map |-> (<<"a">> :> <<>>) @@ (<<"b">> :> <<"{", "a", "}">>)],
      [replace |-> <<"{", "b", "}">>, map |-> (<<"b">> :> <<"x">>)] }

InitTmpl ==
    /\ Idle
    /\ pc = "replacePlaceholders"
    /\ path \in TmplInputs
    /\ \E c \in TmplConfigs : replace = c.replace /\ placeholders = c.map
    /\ placeholderArgs = <<>>

\* The call of main.go:176
CallReplacePlaceholders ==
    /\ pc = "replacePlaceholders"
    /\ ret' = replacePlaceholders(path)
    /\ pc' = "replacePlaceholders.return"
    /\ UNCHANGED <<input, showBase, replace, placeholderArgs, placeholders,
                   baseURL, openErr, wadl, k, path, out, stderr, exitCode>>

NextTmpl == CallReplacePlaceholders

SpecTmpl == InitTmpl /\ [][NextTmpl]_vars

\* -p id=42 -p id=43, and -p novalue -p id=42
ArgId42 == <<"i", "d", "=", "4", "2">>
ArgId43 == <<"i", "d", "=", "4", "3">>
ArgNoValue == <<"n", "o", "v", "a", "l", "u", "e">>

ArgLists ==
    SeqUpTo(StrUpTo({"a", "="}, MaxArgLen), MaxArgs)
        \cup {<<ArgId42, ArgId43>>, <<ArgNoValue, ArgId42>>, <<ArgId42, ArgNoValue>>}

InitParse ==
    /\ Idle
    /\ pc = "start"
    /\ path = <<>>
    /\ replace = <<>>
    /\ placeholderArgs \in ArgLists
    /\ placeholders = EmptyMap

NextParse == ParsePlaceholders

SpecParse == InitParse /\ [][NextParse]_vars

----------------------------------------------------------------------------
(* Properties.  The definitions below state what is expected declaratively, *)
(* by positions in the string, and do not use the operators above.          *)

Max(S) == CHOOSE x \in S : \A y \in S : x >= y

\* s[p..q] is a placeholder token: braces around a non-empty brace-free name
IsToken(s, p, q) ==
    /\ 1 <= p /\ q <= Len(s) /\ q >= p + 2
    /\ s[p] = "{" /\ s[q] = "}"
    /\ \A i \in (p + 1)..(q - 1) : s[i] \notin {"{", "}"}

Tokens(s) ==
    LET opens  == {p \in 1..Len(s) : s[p] = "{"}
        closes == {q \in 1..Len(s) : s[q] = "}"}
    IN  {pq \in opens \X closes : IsToken(s, pq[1], pq[2])}

HasToken(s) == Tokens(s) # {}

\* The value the precedence rule gives a token: explicit, default, verbatim
ValueOf(name, token) ==
    IF name \in DOMAIN placeholders THEN placeholders[name]
    ELSE IF replace # <<>> THEN replace
    ELSE token

\* 1-based positions where "//" starts
SlashPairs(s) == {p \in 1..(Len(s) - 1) : s[p] = "/" /\ s[p + 1] = "/"}

\* Positions of the second "//" counted without overlap: at least two past the first
SecondPairs(s) ==
    IF SlashPairs(s) = {} THEN {}
    ELSE {p \in SlashPairs(s) : p >= Min(SlashPairs(s)) + 2}

\* s with its second non-overlapping "//" made "/"
Collapsed(s) ==
    IF SecondPairs(s) = {} THEN s
    ELSE LET p == Min(SecondPairs(s))
         IN  SubSeq(s, 1, p) \o SubSeq(s, p + 2, Len(s))

RECURSIVE Concat(_, _, _)
Concat(f, i, n) == IF i > n THEN <<>> ELSE f[i] \o Concat(f, i + 1, n)

\* What position i of s contributes to the rendering of s, toks its tokens
Piece(s, toks, i) ==
    LET starting == {pq \in toks : pq[1] = i}
    IN  IF starting # {}
        THEN LET q == (CHOOSE pq \in starting : TRUE)[2]
             IN  ValueOf(SubSeq(s, i + 1, q - 1), SubSeq(s, i, q))
        ELSE IF \E pq \in toks : pq[1] < i /\ i <= pq[2]
        THEN <<>>
        ELSE <<s[i]>>

SinglePass(s) ==
    LET pass == [toks \in {Tokens(s)} |->
                    Concat([i \in 1..Len(s) |-> Piece(s, toks, i)], 1, Len(s))]
    IN  pass[Tokens(s)]

\* C1: a path holding exactly one token {name} and no other brace renders to
\* the text around the token with, in its place, the explicit value if name
\* is mapped (also when that value is empty), else the non-empty default
\* replacement, else the token itself; in any path the rendering starts with
\* the text before the leftmost token followed by that token's value.
C1_Precedence ==
    pc = "replacePlaceholders.return" =>
        \A pq \in Tokens(path) :
            LET p == pq[1]
                q == pq[2]
                name == SubSeq(path, p + 1, q - 1)
                token == SubSeq(path, p, q)
                value == IF name \in DOMAIN placeholders THEN placeholders[name]
                         ELSE IF replace # <<>> THEN replace
                         ELSE token
            IN  /\ (\A i \in (1..Len(path)) \ (p..q) : path[i] \notin {"{", "}"})
                      => ret = SubSeq(path, 1, p - 1) \o value \o SubSeq(path, q + 1, Len(path))
                /\ (\A rs \in Tokens(path) : p <= rs[1])
                      => /\ Len(ret) >= p - 1 + Len(value)
                         /\ SubSeq(ret, 1, p - 1 + Len(value)) = SubSeq(path, 1, p - 1) \o value

\* {a} with a explicitly mapped to the empty string and a default set: empty
C1_Witness ==
    /\ pc = "replacePlaceholders.return"
    /\ path = <<"{", "a", "}">>
    /\ <<"a">> \in DOMAIN placeholders
    /\ placeholders[<<"a">>] = <<>>
    /\ replace = <<"R">>
    /\ ret = <<>>

\* C10: rendering is one pass over the tokens of the original string: each
\* position contributes its token's value, nothing (inside a token) or its
\* own character, and values are not scanned again.
C10_SinglePass ==
    pc = "replacePlaceholders.return" =>
        /\ ret = SinglePass(path)
        /\ (path = PathUsersOrders /\ replace = <<"X", "X", "X">> /\ placeholders = EmptyMap)
              => ret = <<"/", "u", "s", "e", "r", "s", "/", "X", "X", "X", "/",
                         "o", "r", "d", "e", "r", "s", "/", "X", "X", "X">>

\* {b} mapped to "{a}" stays "{a}" although a has an explicit value
C10_Witness ==
    /\ pc = "replacePlaceholders.return"
    /\ path = <<"{", "b", "}">>
    /\ <<"a">> \in DOMAIN placeholders
    /\ <<"b">> \in DOMAIN placeholders
    /\ ret = <<"{", "a", "}">>

\* C9: replaceNth(s, "//", "/", 2) is s with its second non-overlapping "//"
\* made "/", s itself when there is none; so s or s less one character.
C9_ReplaceSecond ==
    pc = "replaceNth.return" =>
        /\ ret = Collapsed(path)
        /\ ret = path \/ Len(ret) = Len(path) - 1
        /\ (Cardinality(SlashPairs(path)) < 2 => ret = path)
        /\ (path = JoinedExample => ret = BaseHost \o PathResId)

\* "///a//": the run of three is one occurrence, the last pair the second
C9_Witness ==
    /\ pc = "replaceNth.return"
    /\ path = <<"/", "/", "/", "a", "/", "/">>
    /\ ret = <<"/", "/", "/", "a", "/">>

\* Arguments with "=", their name and value split at the first "="
HasEq(a) == \E i \in 1..Len(a) : a[i] = "="
FirstEq(a) == Min({i \in 1..Len(a) : a[i] = "="})
NameOfArg(a) == SubSeq(a, 1, FirstEq(a) - 1)
ValueOfArg(a) == SubSeq(a, FirstEq(a) + 1, Len(a))
WellFormed(args) == {i \in 1..Len(args) : HasEq(args[i])}

\* C7: after parsePlaceholders the mapping has exactly the names of the
\* arguments holding "=", each mapped to the value of the last such argument
\* with that name; arguments without "=" leave no trace.
C7_ParsedMapping ==
    pc = "checkInput" =>
        /\ DOMAIN placeholders = {NameOfArg(placeholderArgs[i]) : i \in WellFormed(placeholderArgs)}
        /\ \A n \in DOMAIN placeholders :
              placeholders[n] =
                  ValueOfArg(placeholderArgs[
                      Max({i \in WellFormed(placeholderArgs) : NameOfArg(placeholderArgs[i]) = n})])
        /\ placeholderArgs = <<ArgId42, ArgId43>>
              => placeholders = (<<"i", "d">> :> <<"4", "3">>)
        /\ placeholderArgs = <<ArgNoValue, ArgId42>>
              => placeholders = (<<"i", "d">> :> <<"4", "2">>)

\* -p a=a -p a== : a ends mapped to "=", the text after the first "="
C7_Witness ==
    /\ pc = "checkInput"
    /\ placeholderArgs = << <<"a", "=", "a">>, <<"a", "=", "=">> >>
    /\ placeholders = (<<"a">> :> <<"=">>)

----------------------------------------------------------------------------
(* Properties of a run of main *)

Doc == wadl[1]
Running == pc \in {"loop", "done"}

\* The declared base: the text of the first resources/@base, if any
DeclaredBase == IF Doc.bases = <<>> THEN <<>> ELSE Doc.bases[1]

\* C2: every emitted line is the composed and collapsed string, rendered
\* afterwards: template(collapse(base + path)).
C2_ComposeThenTemplate ==
    Running =>
        \A j \in 1..Len(out) :
            LET joined == baseURL \o Doc.paths[j]
                composed == IF baseURL # <<>> THEN Collapsed(joined) ELSE joined
            IN  out[j] = SinglePass(composed)

\* C3: a missing input, a file that cannot be opened, a document that did
\* not load and a document without the namespace marker each end the run
\* with status 1, one error line and no output; no run gets past the
\* corresponding test, and a run with output never has status 1.
C3_FatalBeforeOutput ==
    /\ (exitCode = 1 <=> pc = "exit")
    /\ pc = "exit" => out = <<>> /\ Len(stderr) = 1 /\ k = 0
    /\ out # <<>> => exitCode # 1
    /\ openErr => pc = "exit"
    /\ (input = <<>> /\ pc \notin {"start", "checkInput"}) => pc = "exit"
    /\ pc \in {"checkNs", "base", "loop", "done"} => wadl # <<>>
    /\ pc \in {"base", "loop", "done"} =>
          /\ Doc.xmlns # <<>>
          /\ \E x \in 0..(Len(Doc.xmlns[1]) - Len(WadlNs)) :
                SubSeq(Doc.xmlns[1], x + 1, x + Len(WadlNs)) = WadlNs
    /\ pc = "done" => exitCode = 0 /\ stderr = <<>>

\* A document with paths but an xmlns one character short of the marker
C3_Witness ==
    /\ pc = "exit"
    /\ exitCode = 1
    /\ stderr = << <<"Error! ", "Not a WADL file.">> >>
    /\ wadl # <<>>
    /\ Doc.xmlns = << SubSeq(WadlNs, 1, Len(WadlNs) - 1) >>
    /\ Len(Doc.paths) = MaxPaths
    /\ out = <<>>

\* C4: after k declarations exactly k lines are out, line j rendering
\* declaration j; a finished run has one line per declaration.
C4_OneLinePerDeclaration ==
    Running =>
        /\ Len(out) = k
        /\ k <= Len(Doc.paths)
        /\ \A j \in 1..k : out[j] = RenderLine(baseURL, Doc.paths[j])
        /\ pc = "done" => Len(out) = Len(Doc.paths)

\* The same declaration twice gives the same line twice
C4_Witness ==
    /\ pc = "done"
    /\ Len(Doc.paths) >= 2
    /\ Doc.paths[1] = Doc.paths[2]
    /\ Len(out) = Len(Doc.paths)
    /\ out[1] = out[2]

\* C5: while paths are rendered the base is the first declared base when
\* one is declared and -b is given, and empty otherwise; it does not change
\* from one rendering to the next, and a line whose base + path holds no
\* token and fewer than two "//" is base + path.
C5_BaseInv ==
    /\ ~Running => baseURL = <<>>
    /\ Running =>
          /\ baseURL = (IF Doc.bases # <<>> /\ showBase THEN DeclaredBase ELSE <<>>)
          /\ \A j \in 1..Len(out) :
                LET joined == baseURL \o Doc.paths[j]
                IN  /\ (~HasToken(joined) /\ SecondPairs(joined) = {})
                          => out[j] = joined
                    /\ (~showBase /\ Doc.paths[j] = PathA) => out[j] = PathA

C5_EffectiveBase == [](C5_BaseInv) /\ [][pc = "loop" => baseURL' = baseURL]_vars

\* base "http://h.tld", path "/a", no -b: the line is "/a"
C5_Witness ==
    /\ pc = "done"
    /\ ~showBase
    /\ Doc.bases = <<BaseHost>>
    /\ Len(Doc.paths) >= 1
    /\ Doc.paths[1] = PathA
    /\ baseURL = <<>>
    /\ out[1] = PathA

\* C6: with an empty base a line is the rendered path with every "//" kept
\* (the raw path when it holds no token); with a non-empty base the rendered
\* string loses one character exactly when it holds a second "//".
C6_CollapseIffBase ==
    Running =>
        \A j \in 1..Len(out) :
            \A rendered \in {SinglePass(baseURL \o Doc.paths[j])} :
                /\ baseURL = <<>> =>
                      /\ out[j] = rendered
                      /\ SlashPairs(out[j]) = SlashPairs(rendered)
                      /\ ~HasToken(Doc.paths[j]) => out[j] = Doc.paths[j]
                /\ (baseURL # <<>> /\ SecondPairs(rendered) # {})
                      => Len(out[j]) = Len(rendered) - 1
                /\ (baseURL # <<>> /\ SecondPairs(rendered) = {})
                      => out[j] = rendered

\* -b with a declared but empty base: "/a//b//c" is emitted as it is
C6_Witness ==
    /\ pc = "done"
    /\ showBase
    /\ Doc.bases = << <<>> >>
    /\ Len(Doc.paths) >= 1
    /\ Doc.paths[1] = PathSlashes
    /\ out[1] = PathSlashes

\* C8 as stated: a declaration without tokens is emitted as base + path,
\* collapsed when the base is not empty, whatever the base and configuration.
C8_PathWithoutTokens ==
    Running =>
        \A j \in 1..Len(out) :
            LET joined == baseURL \o Doc.paths[j]
            IN  ~HasToken(Doc.paths[j])
                    => out[j] = (IF baseURL # <<>> THEN Collapsed(joined) ELSE joined)

\* C8 amended: when base + path holds no token, the line is base + path,
\* collapsed when the base is not empty, whatever the configuration.
C8_JoinedWithoutTokens ==
    Running =>
        \A j \in 1..Len(out) :
            LET joined == baseURL \o Doc.paths[j]
            IN  ~HasToken(joined)
                    => out[j] = (IF baseURL # <<>> THEN Collapsed(joined) ELSE joined)

\* "http://h.tld/" + "/a{}" with a default and explicit values configured
C8_Witness ==
    /\ pc = "done"
    /\ baseURL = BaseHostSlash
    /\ replace # <<>>
    /\ placeholders # EmptyMap
    /\ Len(Doc.paths) >= 1
    /\ Doc.paths[1] = PathEmptyBraces
    /\ out[1] = BaseHost \o PathEmptyBraces

====
